---- MODULE Spec2Model ----
(***************************************************************************)
(* Model of server/autolinkplugin/config.go: the plugin's configuration    *)
(* object p.conf, the read/write lock p.confLock that guards it, and the   *)
(* operations OnConfigurationChange, getConfig, SaveLinks, UpdateConfig,   *)
(* ToMap and parsePluginAdminList.                                         *)
(*                                                                         *)
(* A Go string is a sequence of one-character strings.  A rule (Autolink)  *)
(* is a record [Name, Pattern, re]: re is TRUE when Compile has stored a   *)
(* compiled expression in the rule (an unexported field, not serialised).  *)
(***************************************************************************)
EXTENDS Integers, Sequences, FiniteSets, TLC

\* ------------------------------------------------------------------ bounds
MaxLen == 4        \* longest raw pluginAdmins string of ParseSpec
MaxInvocations == 2  \* invocations (of any operation) in one behaviour
MaxLinks == 2      \* longest rule sequence of ConfigSpec

\* ----------------------------------------------------------------- strings
Comma == ","
Space == " "
Alphabet == {"u", "v", Comma, Space}

StringsUpTo(n) == UNION {[1..k -> Alphabet] : k \in 0..n}

\* identities the host's user directory may know (GetUser succeeds)
Ids == {<<>>, <<"u">>, <<"v">>, <<"u", "v">>}

\* strings.Split(s, ","): the tokens between commas, empty ones included;
\* n commas give n+1 tokens, so the empty string gives one empty token.
RECURSIVE SplitAcc(_, _, _, _)
SplitAcc(s, i, cur, acc) ==
    IF i > Len(s) THEN Append(acc, cur)
    ELSE IF s[i] = Comma THEN SplitAcc(s, i + 1, <<>>, Append(acc, cur))
    ELSE SplitAcc(s, i + 1, Append(cur, s[i]), acc)

Split(s) == SplitAcc(s, 1, <<>>, <<>>)

\* strings.TrimSpace(s): s without leading and trailing white space
RECURSIVE TrimLeft(_)
TrimLeft(s) ==
    IF Len(s) > 0 /\ Head(s) = Space THEN TrimLeft(Tail(s)) ELSE s

RECURSIVE TrimRight(_)
TrimRight(s) ==
    IF Len(s) > 0 /\ s[Len(s)] = Space THEN TrimRight(SubSeq(s, 1, Len(s) - 1)) ELSE s

TrimSpace_LeftOnly(s) == TrimLeft(s)

TrimSpace(s) == TrimRight(TrimLeft(s))

\* api.GetUser(userID): succeeds iff the directory knows the identity
GetUser(users, userID) == userID \in users

\* The loop of parsePluginAdminList over the tokens; calls is the log of the
\* identities GetUser was called with, in order.
RECURSIVE AdminLoop(_, _, _, _)
AdminLoop(userIDs, users, ids, calls) ==
    IF userIDs = <<>> THEN [AdminUserIds |-> ids, calls |-> calls]
    ELSE LET userID == TrimSpace(Head(userIDs))
         IN  AdminLoop(Tail(userIDs), users,
                       IF GetUser(users, userID) THEN ids \cup {userID} ELSE ids,
                       Append(calls, userID))

parsePluginAdminList_NoEmptyCheck(PluginAdmins, users) ==
    AdminLoop(Split(PluginAdmins), users, {}, <<>>)

parsePluginAdminList(PluginAdmins, users) ==
    IF Len(PluginAdmins) = 0
    THEN [AdminUserIds |-> {}, calls |-> <<>>]
    ELSE AdminLoop(Split(PluginAdmins), users, {}, <<>>)


\* ------------------------------------------------------------ configuration
\* type Config: the fields in declaration order
Fields == <<"EnableAdminCommand", "EnableOnUpdate", "PluginAdmins", "Links", "AdminUserIds">>

\* the json tags of Config, in declaration order; AdminUserIds has tag "-"
JsonKeys == <<"enableadmincommand", "enableonupdate", "pluginadmins", "links">>

\* new(Config): the zero value p.conf points to when the plugin is created
ZeroConfig ==
    [EnableAdminCommand |-> FALSE, EnableOnUpdate |-> FALSE, PluginAdmins |-> <<>>,
     Links |-> <<>>, AdminUserIds |-> {}]

\* a rule as stored: Pattern is "ok" when it is a regular expression that compiles
RawRule(name, pattern) == [Name |-> name, Pattern |-> pattern]

\* a rule in memory: re is TRUE when the rule holds a compiled expression
Rule(name, pattern, re) == [Name |-> name, Pattern |-> pattern, re |-> re]

\* json.Marshal of a field's value: a rule keeps its exported fields only
FieldToJSON(f, v) ==
    IF f = "Links" THEN [i \in 1..Len(v) |-> RawRule(v[i].Name, v[i].Pattern)] ELSE v

\* the transport map of the zero configuration
ZeroMap ==
    [enableadmincommand |-> FALSE, enableonupdate |-> FALSE, pluginadmins |-> <<>>,
     links |-> <<>>]

\* LoadPluginConfiguration(&c) into "var c Config": the four tagged fields come
\* from the stored map, rules arrive uncompiled, AdminUserIds stays nil.
LoadPluginConfiguration(m) ==
    [EnableAdminCommand |-> m.enableadmincommand, EnableOnUpdate |-> m.enableonupdate,
     PluginAdmins |-> m.pluginadmins,
     Links |-> [i \in 1..Len(m.links) |-> Rule(m.links[i].Name, m.links[i].Pattern, FALSE)],
     AdminUserIds |-> {}]

\* Autolink.Compile: stores the compiled expression when the pattern compiles,
\* leaves the rule without one and returns an error otherwise.
CompileFails(rule) == rule.Pattern # "ok"

Compile(rule) == [rule EXCEPT !.re = ~CompileFails(rule)]

\* "for i := range c.Links": Compile each rule from index i on; an error is
\* logged and the loop goes on.  n counts the calls of Compile.
RECURSIVE CompileLoop_StopAtError(_, _, _)
CompileLoop_StopAtError(ls, i, n) ==
    IF i > Len(ls) THEN [Links |-> ls, n |-> n]
    ELSE IF CompileFails(ls[i]) THEN [Links |-> ls, n |-> n + 1]
    ELSE CompileLoop_StopAtError([ls EXCEPT ![i] = Compile(ls[i])], i + 1, n + 1)

RECURSIVE CompileLoop(_, _, _)
CompileLoop(ls, i, n) ==
    IF i > Len(ls) THEN [Links |-> ls, n |-> n]
    ELSE CompileLoop([ls EXCEPT ![i] = Compile(ls[i])], i + 1, n + 1)

\* ------------------------------------------------------------ processes
OCCs == {"o1", "o2"}       \* invocations of OnConfigurationChange
Savers == {"s1", "s2"}     \* invocations of SaveLinks
Readers == {"r1"}          \* callers of getConfig that then read the fields
Procs == OCCs \cup Savers \cup Readers
NoProc == "none"

\* configurations an administrator may put into the host's store
PushA ==
    [enableadmincommand |-> TRUE, enableonupdate |-> TRUE,
     pluginadmins |-> <<"u", Comma, Space, "v">>,
     links |-> <<RawRule("a", "("), RawRule("b", "ok")>>]

PushB ==
    [enableadmincommand |-> FALSE, enableonupdate |-> FALSE,
     pluginadmins |-> <<"v">>,
     links |-> <<RawRule("b", "(")>>]

Pushes == {PushA, PushB}

\* contents of the host's user directory during one resolution
Directories == { {<<"u">>, <<"v">>}, {<<"v">>} }

\* rule sequences passed to SaveLinks: a rule whose pattern does not compile,
\* then a compiled rule
LinkArgs == { <<Rule("c", "(", FALSE), Rule("a", "ok", TRUE)>> }

VARIABLES
    conf,        \* the Config object p.conf points to (the pointer never changes)
    confLock,    \* p.confLock: [w: the writer holding it, r: the readers holding it]
    store,       \* the host's stored plugin configuration (transport map)
    registered,  \* whether the host has the "autolink" command registered
    published,   \* history: the complete configurations installed or being installed
    pc,          \* position of each invocation
    ret,         \* return value of each OnConfigurationChange / SaveLinks
    c,           \* OnConfigurationChange: local variable c
    loaded,      \* history: <<map>> the invocation loaded, <<>> before
    compiles,    \* history: the number of Compile calls of the invocation
    lookups,     \* history: the GetUser calls of the invocation
    fld,         \* OnConfigurationChange: next field of "*conf = c" to copy
    task,        \* the goroutine of the invocation: none, spawned, done
    cmdCalls,    \* history: the host command calls of the invocation
    links,       \* SaveLinks: argument links
    tm,          \* SaveLinks: fields ToMap has marshalled so far
    out,         \* SaveLinks: the map ToMap is building
    saved,       \* history: <<map>> handed to SavePluginConfig, <<>> before
    rd,          \* reader: fields read so far
    seen,        \* reader: the field values read through the pointer
    atGet,       \* history: conf at the moment getConfig returned the pointer
    pin,         \* ParseSpec: the input [raw, users]
    pout,        \* ParseSpec: <<result>> of parsePluginAdminList, <<>> before
    cin,         \* ConfigSpec: history, the Config before a method is applied
    cheap,       \* ConfigSpec: the heap, [conf |-> the Config a method is applied to]
    sret,        \* ConfigSpec: <<pointer>> returned by Sorted, <<>> before
    mret,        \* ConfigSpec: <<map>> returned by ToMap, <<>> before
    gl,          \* GetLinks: <<rule sequence>> it returns, <<>> before
    appErr       \* SaveLinks: the result of its SavePluginConfig call, "none" before

hostVars == <<store, registered>>
occVars == <<c, loaded, compiles, lookups, fld, task, cmdCalls>>
slVars == <<links, tm, out, saved, appErr>>
rdVars == <<rd, seen, atGet, gl>>
parseVars == <<pin, pout>>
confVars == <<cin, cheap, sret, mret>>
vars == <<conf, confLock, store, registered, published, pc, ret,
          c, loaded, compiles, lookups, fld, task, cmdCalls,
          links, tm, out, saved, rd, seen, atGet, pin, pout,
          cin, cheap, sret, mret, gl, appErr>>

Init ==
    /\ conf = ZeroConfig
    /\ confLock = [w |-> NoProc, r |-> {}]
    /\ store = ZeroMap
    /\ registered = FALSE
    /\ published = {ZeroConfig}
    /\ pc = [p \in Procs |-> "start"]
    /\ ret = [p \in OCCs \cup Savers |-> "none"]
    /\ c = [o \in OCCs |-> ZeroConfig]
    /\ loaded = [o \in OCCs |-> <<>>]
    /\ compiles = [o \in OCCs |-> 0]
    /\ lookups = [o \in OCCs |-> <<>>]
    /\ fld = [o \in OCCs |-> 1]
    /\ task = [o \in OCCs |-> "none"]
    /\ cmdCalls = [o \in OCCs |-> <<>>]
    /\ links = [s \in Savers |-> <<>>]
    /\ tm = [s \in Savers |-> 0]
    /\ out = [s \in Savers |-> ZeroMap]
    /\ saved = [s \in Savers |-> <<>>]
    /\ rd = [r \in Readers |-> 0]
    /\ seen = [r \in Readers |-> ZeroConfig]
    /\ atGet = [r \in Readers |-> ZeroConfig]
    /\ pin = [raw |-> <<>>, users |-> {}]
    /\ pout = <<>>
    /\ cin = ZeroConfig
    /\ cheap = [conf |-> ZeroConfig]
    /\ sret = <<>>
    /\ mret = <<>>
    /\ gl = [r \in Readers |-> <<>>]
    /\ appErr = [s \in Savers |-> "none"]

\* ------------------------------------------------------------ invocations
\* An invocation may begin while fewer than MaxInvocations have begun.  The
\* invocations of one operation run the same code, so they begin in order.
Started == {p \in Procs : pc[p] # "start"}

Before == [p \in Procs |-> IF p = "o2" THEN {"o1"} ELSE IF p = "s2" THEN {"s1"} ELSE {}]

CanStart(p) ==
    /\ pc[p] = "start"
    /\ Cardinality(Started) < MaxInvocations
    /\ Before[p] \subseteq Started

\* ------------------------------------------------------------ p.confLock
\* sync.RWMutex: Lock waits until no reader and no writer holds the lock,
\* RLock until no writer holds it.
Lock(p) ==
    /\ confLock.w = NoProc /\ confLock.r = {}
    /\ confLock' = [confLock EXCEPT !.w = p]

Unlock(p) ==
    /\ confLock.w = p
    /\ confLock' = [confLock EXCEPT !.w = NoProc]

RLock(p) ==
    /\ confLock.w = NoProc
    /\ confLock' = [confLock EXCEPT !.r = @ \cup {p}]

RUnlock(p) ==
    /\ p \in confLock.r
    /\ confLock' = [confLock EXCEPT !.r = @ \ {p}]

\* ------------------------------------------------- OnConfigurationChange
LoadFails_SwapsEmpty(o) ==
    /\ CanStart(o)
    /\ confLock.w = NoProc /\ confLock.r = {}
    /\ conf' = c[o]
    /\ pc' = [pc EXCEPT ![o] = "done"]
    /\ ret' = [ret EXCEPT ![o] = "err"]
    /\ UNCHANGED <<confLock, published, hostVars, occVars, slVars, rdVars, parseVars, confVars>>

\* LoadPluginConfiguration fails: return the wrapped error
LoadFails(o) ==
    /\ CanStart(o)
    /\ pc' = [pc EXCEPT ![o] = "done"]
    /\ ret' = [ret EXCEPT ![o] = "err"]
    /\ UNCHANGED <<conf, confLock, published, hostVars, occVars, slVars, rdVars, parseVars, confVars>>

\* The host calls OnConfigurationChange when its stored configuration may have
\* changed: the store holds what it held, or what an administrator has just
\* put there.  LoadPluginConfiguration succeeds; every rule is compiled; the
\* admin list is parsed.  All of it works on the local c, so it is one step.
LoadCompileParse(o) ==
    /\ CanStart(o)
    /\ \E m \in Pushes \cup {store}, users \in Directories :
         LET raw == LoadPluginConfiguration(m)
             cl == CompileLoop(raw.Links, 1, 0)
             pa == parsePluginAdminList(raw.PluginAdmins, users)
         IN  /\ c' = [c EXCEPT ![o] = [raw EXCEPT !.Links = cl.Links,
                                                    !.AdminUserIds = pa.AdminUserIds]]
             /\ compiles' = [compiles EXCEPT ![o] = cl.n]
             /\ lookups' = [lookups EXCEPT ![o] = pa.calls]
             /\ store' = m
             /\ loaded' = [loaded EXCEPT ![o] = <<m>>]
    /\ pc' = [pc EXCEPT ![o] = "swap"]
    /\ UNCHANGED <<conf, confLock, published, registered, ret, fld, task, cmdCalls,
                   slVars, rdVars, parseVars, confVars>>

CopyField_MergeAdmins(o, k) ==
    IF Fields[k] = "AdminUserIds"
    THEN [conf EXCEPT !.AdminUserIds = @ \cup c[o].AdminUserIds]
    ELSE [conf EXCEPT ![Fields[k]] = c[o][Fields[k]]]

\* "*conf = c" copies field k of c into the object p.conf points to
CopyField(o, k) == [conf EXCEPT ![Fields[k]] = c[o][Fields[k]]]

\* p.UpdateConfig: p.confLock.Lock()
SwapLock(o) ==
    /\ pc[o] = "swap"
    /\ Lock(o)
    /\ fld' = [fld EXCEPT ![o] = 1]
    /\ published' = published \cup {c[o]}
    /\ pc' = [pc EXCEPT ![o] = "copy"]
    /\ UNCHANGED <<conf, hostVars, ret, c, loaded, compiles, lookups, task,
                   cmdCalls, slVars, rdVars, parseVars, confVars>>

\* f(p.conf), "*conf = c": the struct is copied into the object p.conf points
\* to, one field after the other.  A reader without the lock can see any
\* mixture of old and new fields whatever the order of the copy is, so the
\* declaration order is kept.
SwapCopy(o) ==
    /\ pc[o] = "copy"
    /\ conf' = CopyField(o, fld[o])
    /\ fld' = [fld EXCEPT ![o] = @ + 1]
    /\ pc' = [pc EXCEPT ![o] = IF fld[o] = Len(Fields) THEN "unlock" ELSE "copy"]
    /\ UNCHANGED <<confLock, published, hostVars, ret, c, loaded, compiles, lookups,
                   task, cmdCalls, slVars, rdVars, parseVars, confVars>>

SwapUnlock_NoUnlock(o) ==
    /\ pc[o] = "unlock"
    /\ pc' = [pc EXCEPT ![o] = "go"]
    /\ UNCHANGED <<conf, confLock, published, hostVars, ret, occVars, slVars, rdVars, parseVars,
                   confVars>>

\* p.UpdateConfig: the deferred p.confLock.Unlock()
SwapUnlock(o) ==
    /\ pc[o] = "unlock"
    /\ Unlock(o)
    /\ pc' = [pc EXCEPT ![o] = "go"]
    /\ UNCHANGED <<conf, published, hostVars, ret, occVars, slVars, rdVars, parseVars, confVars>>

\* "go func() {...}()" and "return nil"
SpawnAndReturn(o) ==
    /\ pc[o] = "go"
    /\ task' = [task EXCEPT ![o] = "spawned"]
    /\ ret' = [ret EXCEPT ![o] = "nil"]
    /\ pc' = [pc EXCEPT ![o] = "done"]
    /\ UNCHANGED <<conf, confLock, published, hostVars, c, loaded, compiles, lookups, fld,
                   cmdCalls, slVars, rdVars, parseVars, confVars>>

RegisterCommand_Always(o) ==
    /\ task[o] = "spawned"
    /\ \E ok \in BOOLEAN : registered' = IF ok THEN TRUE ELSE registered
    /\ cmdCalls' = [cmdCalls EXCEPT ![o] =
                      Append(@, [call |-> "RegisterCommand", team |-> "", trigger |-> "autolink"])]
    /\ task' = [task EXCEPT ![o] = "done"]
    /\ UNCHANGED <<conf, confLock, published, store, pc, ret, c, loaded, compiles,
                   lookups, fld, slVars, rdVars, parseVars, confVars>>

\* the goroutine, c.EnableAdminCommand true: p.API.RegisterCommand, result dropped
RegisterCommand(o) ==
    /\ task[o] = "spawned"
    /\ c[o].EnableAdminCommand
    /\ \E ok \in BOOLEAN : registered' = IF ok THEN TRUE ELSE registered
    /\ cmdCalls' = [cmdCalls EXCEPT ![o] =
                      Append(@, [call |-> "RegisterCommand", team |-> "", trigger |-> "autolink"])]
    /\ task' = [task EXCEPT ![o] = "done"]
    /\ UNCHANGED <<conf, confLock, published, store, pc, ret, c, loaded, compiles,
                   lookups, fld, slVars, rdVars, parseVars, confVars>>

UnregisterCommand_RollsBack(o) ==
    /\ task[o] = "spawned"
    /\ ~c[o].EnableAdminCommand
    /\ \E ok \in BOOLEAN :
         /\ registered' = IF ok THEN FALSE ELSE registered
         /\ conf' = IF ok THEN conf ELSE ZeroConfig
    /\ cmdCalls' = [cmdCalls EXCEPT ![o] =
                      Append(@, [call |-> "UnregisterCommand", team |-> "", trigger |-> "autolink"])]
    /\ task' = [task EXCEPT ![o] = "done"]
    /\ UNCHANGED <<confLock, published, store, pc, ret, c, loaded, compiles,
                   lookups, fld, slVars, rdVars, parseVars, confVars>>

\* the goroutine, c.EnableAdminCommand false: p.API.UnregisterCommand("", "autolink")
UnregisterCommand(o) ==
    /\ task[o] = "spawned"
    /\ ~c[o].EnableAdminCommand
    /\ \E ok \in BOOLEAN : registered' = IF ok THEN FALSE ELSE registered
    /\ cmdCalls' = [cmdCalls EXCEPT ![o] =
                      Append(@, [call |-> "UnregisterCommand", team |-> "", trigger |-> "autolink"])]
    /\ task' = [task EXCEPT ![o] = "done"]
    /\ UNCHANGED <<conf, confLock, published, store, pc, ret, c, loaded, compiles,
                   lookups, fld, slVars, rdVars, parseVars, confVars>>

OnConfigurationChange(o) ==
    \/ LoadFails(o)
    \/ LoadCompileParse(o)
    \/ SwapLock(o)
    \/ SwapCopy(o)
    \/ SwapUnlock(o)
    \/ SpawnAndReturn(o)

\* ------------------------------------------------------------- SaveLinks
\* SaveLinks(links) is called; p.UpdateConfig: p.confLock.Lock()
SaveLock(s) ==
    /\ CanStart(s)
    /\ \E l \in LinkArgs :
         /\ links' = [links EXCEPT ![s] = l]
         /\ published' = published \cup {[conf EXCEPT !.Links = l]}
    /\ Lock(s)
    /\ pc' = [pc EXCEPT ![s] = "write"]
    /\ UNCHANGED <<conf, hostVars, ret, occVars, tm, out, saved, appErr, rdVars, parseVars, confVars>>

SaveWrite_Reversed(s) ==
    /\ pc[s] = "write"
    /\ conf' = [conf EXCEPT !.Links = [i \in 1..Len(links[s]) |-> links[s][Len(links[s]) + 1 - i]]]
    /\ pc' = [pc EXCEPT ![s] = "unlock"]
    /\ UNCHANGED <<confLock, published, hostVars, ret, occVars, slVars, rdVars, parseVars, confVars>>

\* f(p.conf): conf.Links = links
SaveWrite(s) ==
    /\ pc[s] = "write"
    /\ conf' = [conf EXCEPT !.Links = links[s]]
    /\ pc' = [pc EXCEPT ![s] = "unlock"]
    /\ UNCHANGED <<confLock, published, hostVars, ret, occVars, slVars, rdVars, parseVars, confVars>>

\* p.UpdateConfig: the deferred p.confLock.Unlock()
SaveUnlock(s) ==
    /\ pc[s] = "unlock"
    /\ Unlock(s)
    /\ pc' = [pc EXCEPT ![s] = "rlock"]
    /\ UNCHANGED <<conf, published, hostVars, ret, occVars, slVars, rdVars, parseVars, confVars>>

\* p.getConfig(): p.confLock.RLock()
SaveRLock(s) ==
    /\ pc[s] = "rlock"
    /\ RLock(s)
    /\ pc' = [pc EXCEPT ![s] = "runlock"]
    /\ UNCHANGED <<conf, published, hostVars, ret, occVars, slVars, rdVars, parseVars, confVars>>

SaveRUnlock_KeepsLock(s) ==
    /\ pc[s] = "runlock"
    /\ tm' = [tm EXCEPT ![s] = 0]
    /\ out' = [out EXCEPT ![s] = ZeroMap]
    /\ pc' = [pc EXCEPT ![s] = "tomap"]
    /\ UNCHANGED <<conf, confLock, published, hostVars, ret, occVars, links, saved, appErr,
                   rdVars, parseVars, confVars>>

\* p.getConfig(): return p.conf, the deferred RUnlock
SaveRUnlock(s) ==
    /\ pc[s] = "runlock"
    /\ RUnlock(s)
    /\ tm' = [tm EXCEPT ![s] = 0]
    /\ out' = [out EXCEPT ![s] = ZeroMap]
    /\ pc' = [pc EXCEPT ![s] = "tomap"]
    /\ UNCHANGED <<conf, published, hostVars, ret, occVars, links, saved, appErr, rdVars, parseVars, confVars>>

\* ToMap: json.Marshal reads the next tagged field through the pointer, without
\* the lock; json.Unmarshal then gives the generic map with the json keys.
ToMapField(s) ==
    /\ pc[s] = "tomap"
    /\ LET k == tm[s] + 1
       IN  /\ out' = [out EXCEPT ![s][JsonKeys[k]] = FieldToJSON(Fields[k], conf[Fields[k]])]
           /\ tm' = [tm EXCEPT ![s] = k]
           /\ pc' = [pc EXCEPT ![s] = IF k = Len(JsonKeys) THEN "save" ELSE "tomap"]
    /\ UNCHANGED <<conf, confLock, published, hostVars, ret, occVars, links, saved, appErr,
                   rdVars, parseVars, confVars>>

ToMapFails_RollsBack(s) ==
    /\ pc[s] = "tomap"
    /\ tm[s] = 0
    /\ conf' = [conf EXCEPT !.Links = <<>>]
    /\ ret' = [ret EXCEPT ![s] = "err"]
    /\ pc' = [pc EXCEPT ![s] = "done"]
    /\ UNCHANGED <<confLock, published, hostVars, occVars, slVars, rdVars, parseVars, confVars>>

\* ToMap returns an error: "unable convert config to map"
ToMapFails(s) ==
    /\ pc[s] = "tomap"
    /\ tm[s] = 0
    /\ ret' = [ret EXCEPT ![s] = "err"]
    /\ pc' = [pc EXCEPT ![s] = "done"]
    /\ UNCHANGED <<conf, confLock, published, hostVars, occVars, slVars, rdVars, parseVars, confVars>>

SavePluginConfig_IgnoresError(s) ==
    /\ pc[s] = "save"
    /\ saved' = [saved EXCEPT ![s] = <<out[s]>>]
    /\ \E ok \in BOOLEAN :
         /\ store' = IF ok THEN out[s] ELSE store
         /\ appErr' = [appErr EXCEPT ![s] = IF ok THEN "nil" ELSE "err"]
         /\ ret' = [ret EXCEPT ![s] = "nil"]
    /\ pc' = [pc EXCEPT ![s] = "done"]
    /\ UNCHANGED <<conf, confLock, published, registered, occVars, links, tm,
                   out, rdVars, parseVars, confVars>>

\* appErr := p.API.SavePluginConfig(configMap): the host stores the map, or
\* fails; SaveLinks returns the wrapped error, or nil
SavePluginConfig(s) ==
    /\ pc[s] = "save"
    /\ saved' = [saved EXCEPT ![s] = <<out[s]>>]
    /\ \E ok \in BOOLEAN :
         /\ store' = IF ok THEN out[s] ELSE store
         /\ appErr' = [appErr EXCEPT ![s] = IF ok THEN "nil" ELSE "err"]
         /\ ret' = [ret EXCEPT ![s] = IF ok THEN "nil" ELSE "err"]
    /\ pc' = [pc EXCEPT ![s] = "done"]
    /\ UNCHANGED <<conf, confLock, published, registered, occVars, links, tm,
                   out, rdVars, parseVars, confVars>>

SaveLinks(s) ==
    \/ SaveLock(s)
    \/ SaveWrite(s)
    \/ SaveUnlock(s)
    \/ SaveRLock(s)
    \/ SaveRUnlock(s)
    \/ ToMapField(s)
    \/ ToMapFails(s)
    \/ SavePluginConfig(s)

\* ------------------------------------------------- a caller of getConfig
\* getConfig: p.confLock.RLock()
GetRLock(r) ==
    /\ CanStart(r)
    /\ RLock(r)
    /\ pc' = [pc EXCEPT ![r] = "runlock"]
    /\ UNCHANGED <<conf, published, hostVars, ret, occVars, slVars, rdVars, parseVars, confVars>>

\* getConfig: return p.conf, the deferred RUnlock; the caller holds the pointer
GetRUnlock(r) ==
    /\ pc[r] = "runlock"
    /\ RUnlock(r)
    /\ atGet' = [atGet EXCEPT ![r] = conf]
    /\ pc' = [pc EXCEPT ![r] = "read"]
    /\ UNCHANGED <<conf, published, hostVars, ret, occVars, slVars, rd, seen, gl, parseVars, confVars>>

\* the caller reads the next field through the pointer getConfig returned,
\* without the lock.  A field is read whole; a read that tears inside a
\* multi-word field would only add outcomes.
ReadField(r) ==
    /\ pc[r] = "read"
    /\ LET k == rd[r] + 1
       IN  /\ seen' = [seen EXCEPT ![r][Fields[k]] = conf[Fields[k]]]
           /\ rd' = [rd EXCEPT ![r] = k]
           /\ pc' = [pc EXCEPT ![r] = IF k = Len(Fields) THEN "done" ELSE "read"]
    /\ UNCHANGED <<conf, confLock, published, hostVars, ret, occVars, slVars, atGet, gl, parseVars, confVars>>

\* what the pointer held by the caller designates: "return p.conf", and no
\* code assigns p.conf, so it is the one object every writer updates
HeldConfig(r) == conf

getConfig(r) ==
    \/ GetRLock(r)
    \/ GetRUnlock(r)
    \/ ReadField(r)

\* ---------------------------------------------------------------- GetLinks
\* GetLinks: p.confLock.RLock()
GetLinksRLock(r) ==
    /\ CanStart(r)
    /\ RLock(r)
    /\ pc' = [pc EXCEPT ![r] = "links"]
    /\ UNCHANGED <<conf, published, hostVars, ret, occVars, slVars, rdVars, parseVars, confVars>>

\* GetLinks: the operand of "return p.conf.Links" is evaluated with the read
\* lock held
GetLinksRead(r) ==
    /\ pc[r] = "links"
    /\ gl' = [gl EXCEPT ![r] = <<conf.Links>>]
    /\ pc' = [pc EXCEPT ![r] = "linksunlock"]
    /\ UNCHANGED <<conf, confLock, published, hostVars, ret, occVars, slVars, rd, seen, atGet,
                   parseVars, confVars>>

\* GetLinks: the deferred p.confLock.RUnlock(), and GetLinks returns
GetLinksRUnlock(r) ==
    /\ pc[r] = "linksunlock"
    /\ RUnlock(r)
    /\ pc' = [pc EXCEPT ![r] = "done"]
    /\ UNCHANGED <<conf, published, hostVars, ret, occVars, slVars, rdVars, parseVars, confVars>>

GetLinks(r) ==
    \/ GetLinksRLock(r)
    \/ GetLinksRead(r)
    \/ GetLinksRUnlock(r)

Next ==
    \/ \E o \in OCCs : OnConfigurationChange(o)
    \/ \E o \in OCCs : RegisterCommand(o)
    \/ \E o \in OCCs : UnregisterCommand(o)
    \/ \E s \in Savers : SaveLinks(s)
    \/ \E r \in Readers : getConfig(r)
    \/ \E r \in Readers : GetLinks(r)

Spec == Init /\ [][Next]_vars

\* every invocation and every goroutine keeps being scheduled
FairSpec ==
    /\ Spec
    /\ \A o \in OCCs : WF_vars(OnConfigurationChange(o))
    /\ \A o \in OCCs : WF_vars(RegisterCommand(o)) /\ WF_vars(UnregisterCommand(o))
    /\ \A s \in Savers : WF_vars(SaveLinks(s))
    /\ \A r \in Readers : WF_vars(getConfig(r)) /\ WF_vars(GetLinks(r))

\* every invocation keeps being scheduled; a goroutine's host call may never
\* complete
StalledCallSpec ==
    /\ Spec
    /\ \A o \in OCCs : WF_vars(OnConfigurationChange(o))
    /\ \A s \in Savers : WF_vars(SaveLinks(s))
    /\ \A r \in Readers : WF_vars(getConfig(r)) /\ WF_vars(GetLinks(r))

\* ------------------------------------------- parsePluginAdminList alone
ParseInit ==
    /\ Init!1 /\ Init!2 /\ Init!3 /\ Init!4 /\ Init!5 /\ Init!6 /\ Init!7 /\ Init!8
    /\ Init!9 /\ Init!10 /\ Init!11 /\ Init!12 /\ Init!13 /\ Init!14 /\ Init!15
    /\ Init!16 /\ Init!17 /\ Init!18 /\ Init!19 /\ Init!20 /\ Init!21
    /\ pin \in [raw : StringsUpTo(MaxLen), users : SUBSET Ids]
    /\ pout = <<>>
    /\ Init!24 /\ Init!25 /\ Init!26 /\ Init!27 /\ Init!28 /\ Init!29

ParseApply ==
    /\ pout = <<>>
    /\ pout' = <<parsePluginAdminList(pin.raw, pin.users)>>
    /\ UNCHANGED <<conf, confLock, published, hostVars, pc, ret, occVars, slVars, rdVars, pin,
                   confVars>>

ParseNext == ParseApply

ParseSpec == ParseInit /\ [][ParseNext]_vars

\* ------------------------------------------------ Sorted and ToMap alone
\* every string a rule's name or pattern takes, in the order of strings.Compare
SortKeys == <<"", "(", "a", "b", "ok">>

StrRank(s) == CHOOSE i \in 1..Len(SortKeys) : SortKeys[i] = s

\* strings.Compare(x, y) < 0
StrLess(x, y) == StrRank(x) < StrRank(y)

\* Autolink.DisplayName: the name, or the pattern when the rule has no name
DisplayName(rule) == IF rule.Name # "" THEN rule.Name ELSE rule.Pattern

\* the rules a configuration in memory can hold: only a pattern that compiles
\* has a compiled expression
Rules ==
    { r \in [Name : {"", "a", "b"}, Pattern : {"(", "ok"}, re : BOOLEAN] :
        r.re => r.Pattern = "ok" }

SeqsUpTo(S, n) == UNION {[1..k -> S] : k \in 0..n}

Configs ==
    [EnableAdminCommand : BOOLEAN, EnableOnUpdate : BOOLEAN,
     PluginAdmins : {<<>>, <<"u">>}, Links : SeqsUpTo(Rules, MaxLinks),
     AdminUserIds : SUBSET {<<"u">>}]

\* sort.Slice(ls, less by DisplayName): some rearrangement of ls in which no
\* rule stands before one of a smaller display name; the sort is not stable
SortSlice(ls) ==
    LET n == Len(ls)
        perms == {f \in [1..n -> 1..n] : \A i, j \in 1..n : i # j => f[i] # f[j]}
        outs == {[i \in 1..n |-> ls[f[i]]] : f \in perms}
    IN  {o \in outs :
           \A i, j \in 1..n : i < j => ~StrLess(DisplayName(o[j]), DisplayName(o[i]))}

\* conf.Sorted(), sort.Slice giving sortedLinks: "sorted := conf" is the same
\* pointer; its Links becomes a copy of conf.Links, which is then sorted in
\* place; "return conf".  No Config is allocated.
Sorted(heap, p, sortedLinks) ==
    [heap |-> [heap EXCEPT ![p].Links = sortedLinks], ret |-> p]

\* the field a json key is the tag of
FieldOfKey(k) == Fields[CHOOSE i \in 1..Len(JsonKeys) : JsonKeys[i] = k]

ToMap_WithAdmins(cfg) ==
    [k \in {JsonKeys[i] : i \in 1..Len(JsonKeys)} \cup {"adminuserids"} |->
        IF k = "adminuserids" THEN cfg.AdminUserIds
        ELSE FieldToJSON(FieldOfKey(k), cfg[FieldOfKey(k)])]

\* conf.ToMap(): json.Marshal writes the tagged fields under their json keys,
\* json.Unmarshal reads them into a map[string]interface{}
ToMap(cfg) ==
    [k \in {JsonKeys[i] : i \in 1..Len(JsonKeys)} |->
        FieldToJSON(FieldOfKey(k), cfg[FieldOfKey(k)])]

ConfigInit ==
    /\ Init!1 /\ Init!2 /\ Init!3 /\ Init!4 /\ Init!5 /\ Init!6 /\ Init!7 /\ Init!8
    /\ Init!9 /\ Init!10 /\ Init!11 /\ Init!12 /\ Init!13 /\ Init!14 /\ Init!15
    /\ Init!16 /\ Init!17 /\ Init!18 /\ Init!19 /\ Init!20 /\ Init!21
    /\ Init!22 /\ Init!23
    /\ cin \in Configs
    /\ cheap = [conf |-> cin]
    /\ sret = <<>>
    /\ mret = <<>>
    /\ Init!28 /\ Init!29

SortedApply ==
    /\ sret = <<>>
    /\ \E sortedLinks \in SortSlice(cheap["conf"].Links) :
         LET r == Sorted(cheap, "conf", sortedLinks)
         IN  cheap' = r.heap /\ sret' = <<r.ret>>
    /\ UNCHANGED <<conf, confLock, published, hostVars, pc, ret, occVars, slVars, rdVars,
                   parseVars, cin, mret>>

ToMapApply ==
    /\ mret = <<>>
    /\ sret = <<>>
    /\ mret' = <<ToMap(cheap["conf"])>>
    /\ UNCHANGED <<conf, confLock, published, hostVars, pc, ret, occVars, slVars, rdVars,
                   parseVars, cin, cheap, sret>>

ConfigNext == SortedApply \/ ToMapApply

ConfigSpec == ConfigInit /\ [][ConfigNext]_vars


\* =================================================================== claims

\* the comma-separated tokens of a non-empty raw list, trimmed, stated on the
\* positions of the string: s[i..j] is a token when it holds no comma and is
\* delimited by commas or the ends of the string
TokenBounds(s) ==
    { b \in (1..Len(s) + 1) \X (0..Len(s)) :
        /\ b[2] >= b[1] - 1
        /\ \A k \in b[1]..b[2] : s[k] # Comma
        /\ (b[1] = 1 \/ s[b[1] - 1] = Comma)
        /\ (b[2] = Len(s) \/ s[b[2] + 1] = Comma) }

TrimmedPart(s, i, j) ==
    LET ns == {k \in i..j : s[k] # Space}
    IN  IF ns = {} THEN <<>>
        ELSE SubSeq(s, CHOOSE a \in ns : \A k \in ns : a <= k,
                       CHOOSE z \in ns : \A k \in ns : z >= k)

Tokens(s) ==
    IF Len(s) = 0 THEN {} ELSE { TrimmedPart(s, b[1], b[2]) : b \in TokenBounds(s) }

RegisterCall == [call |-> "RegisterCommand", team |-> "", trigger |-> "autolink"]
UnregisterCall == [call |-> "UnregisterCommand", team |-> "", trigger |-> "autolink"]

\* C1 (as claimed): a caller that took the configuration from getConfig and
\* has read all its fields has seen one complete configuration, the old one or
\* a new one, never fields of two different ones.
C1_ReaderSeesOneSnapshot ==
    \A r \in Readers : pc[r] = "done" => seen[r] \in published

\* C2 (as claimed): the map a SaveLinks invocation hands to SavePluginConfig
\* has as its links exactly the sequence passed to that invocation.
C2_SavedLinksAreTheArgument ==
    \A s \in Savers :
        saved[s] # <<>> => saved[s][1].links = FieldToJSON("Links", links[s])

\* C3 (as claimed): a configuration obtained from getConfig keeps the field
\* values it had then, whatever OnConfigurationChange or SaveLinks completes
\* afterwards.
C3_HeldSnapshotIsImmutable ==
    \A r \in Readers :
        (pc[r] \in {"read", "done"} /\ confLock.w = NoProc) => HeldConfig(r) = atGet[r]

\* C4: parsePluginAdminList yields exactly the trimmed comma-separated tokens
\* whose lookup succeeds, and always yields a result.
C4_AdminSetIsTheKnownTokens ==
    pout # <<>> =>
        pout[1].AdminUserIds = {id \in Tokens(pin.raw) : id \in pin.users}

C4_Witness ==
    /\ pout # <<>>
    /\ pin.raw = <<"u", Comma, Space, "v">>
    /\ pin.users = {<<"v">>}
    /\ pout[1].AdminUserIds = {<<"v">>}

\* C5 (as claimed): a token that is empty after trimming causes no GetUser
\* call and is never in the admin set.
C5_NoLookupOfEmptyToken ==
    pout # <<>> =>
        /\ \A k \in 1..Len(pout[1].calls) : pout[1].calls[k] # <<>>
        /\ \A id \in pout[1].AdminUserIds : id # <<>>

\* C6: the empty pluginAdmins gives the empty admin set and no GetUser call.
C6_EmptyListNoLookup ==
    (pout # <<>> /\ pin.raw = <<>>) =>
        (pout[1].AdminUserIds = {} /\ pout[1].calls = <<>>)

C6_Witness ==
    pout # <<>> /\ pin.raw = <<>> /\ <<>> \in pin.users

\* C7: when the load fails, OnConfigurationChange returns an error in a step
\* that leaves the active configuration and the lock as they are, and the
\* invocation compiles no rule, looks up no identity and makes no command call.
C7_LoadFailureChangesNothing ==
    /\ [](\A o \in OCCs :
            (pc[o] = "done" /\ loaded[o] = <<>>) =>
                /\ ret[o] = "err"
                /\ compiles[o] = 0 /\ lookups[o] = <<>>
                /\ task[o] = "none" /\ cmdCalls[o] = <<>>)
    /\ [][\A o \in OCCs :
            (pc[o] = "start" /\ pc'[o] = "done") =>
                (conf' = conf /\ confLock' = confLock /\ ret'[o] = "err")]_vars

C7_Witness ==
    \E o \in OCCs :
        pc[o] = "done" /\ ret[o] = "err" /\ conf.Links # <<>> /\ confLock.w = NoProc

\* C8: after a successful load every rule is compiled once, in order, whatever
\* rules fail; the invocation never returns an error; and when its swap is
\* complete the active configuration holds the loaded rules, same length and
\* order, each compiled exactly when its pattern compiles.
C8_CompileFailuresAreNotFatal ==
    \A o \in OCCs :
        loaded[o] # <<>> =>
            /\ compiles[o] = Len(loaded[o][1].links)
            /\ FieldToJSON("Links", c[o].Links) = loaded[o][1].links
            /\ \A i \in 1..Len(c[o].Links) :
                   c[o].Links[i].re = (c[o].Links[i].Pattern = "ok")
            /\ ret[o] = IF pc[o] = "done" THEN "nil" ELSE "none"
            /\ pc[o] \in {"swap", "copy", "unlock", "go", "done"}
            /\ pc[o] = "unlock" => conf.Links = c[o].Links

C8_Witness ==
    \E o \in OCCs :
        /\ pc[o] = "unlock"
        /\ Len(conf.Links) = 2
        /\ ~conf.Links[1].re /\ conf.Links[2].re

\* C9: whenever no writer holds the lock, the active admin set is the set of
\* the trimmed tokens of the active pluginAdmins that some directory knows:
\* nothing else, nothing from an earlier configuration.
C9_AdminSetMatchesPluginAdmins ==
    confLock.w = NoProc =>
        /\ conf.AdminUserIds \subseteq Tokens(conf.PluginAdmins)
        /\ \E users \in SUBSET Ids :
               conf.AdminUserIds = {id \in Tokens(conf.PluginAdmins) : id \in users}

C9_Witness ==
    /\ confLock.w = NoProc
    /\ conf.PluginAdmins = <<"v">>
    /\ conf.AdminUserIds = {<<"v">>}
    /\ \E old \in published : <<"u">> \in old.AdminUserIds

\* C10: an invocation whose load succeeded makes, in the end, exactly one
\* command call: RegisterCommand when the loaded enableadmincommand is true,
\* UnregisterCommand("", "autolink") when it is false.
C10_OneCommandCall ==
    /\ [](\A o \in OCCs :
            /\ Len(cmdCalls[o]) <= 1
            /\ cmdCalls[o] # <<>> =>
                 /\ loaded[o] # <<>>
                 /\ cmdCalls[o][1] = IF loaded[o][1].enableadmincommand
                                     THEN RegisterCall ELSE UnregisterCall)
    /\ \A o \in OCCs : (loaded[o] # <<>>) ~> (Len(cmdCalls[o]) = 1)

C10_Witness ==
    \E o1 \in OCCs, o2 \in OCCs :
        cmdCalls[o1] = <<RegisterCall>> /\ cmdCalls[o2] = <<UnregisterCall>>


\* C11 (as claimed): Sorted leaves the rule order of the configuration it is
\* called on as it was, and returns a Config that is another object.
C11_SortedLeavesReceiverAlone ==
    sret # <<>> => (cheap["conf"].Links = cin.Links /\ sret[1] # "conf")


\* SaveLinks s has done its in-memory mutation
Mutated(s) == pc[s] \in {"unlock", "rlock", "runlock", "tomap", "save", "done"}

\* the host's SavePluginConfig call of SaveLinks s has not been issued
NotYetSaved(s) == pc[s] \in {"unlock", "rlock", "runlock", "tomap", "save"}

\* this step is a write to the configuration by an invocation other than s
OtherWriterStep(s) ==
    \/ \E o \in OCCs : pc[o] = "copy" /\ (fld'[o] # fld[o] \/ pc'[o] # "copy")
    \/ \E x \in Savers \ {s} : pc[x] = "write" /\ pc'[x] # "write"

\* C12: the in-memory mutation of SaveLinks(links) makes the active rule
\* sequence equal to links, in order; it stays so, whether or not the host's
\* SavePluginConfig call has been issued or has completed, for as long as no
\* other writer writes; and what GetLinks returns, and what a caller of
\* getConfig reads as the rules, is the rule sequence active at that moment.
C12_SavedLinksAreRead ==
    [][ /\ \A s \in Savers :
             /\ (pc[s] = "write" /\ pc'[s] # "write") => conf'.Links = links[s]
             /\ (Mutated(s) /\ conf.Links = links[s] /\ ~OtherWriterStep(s))
                   => conf'.Links = links[s]
        /\ \A r \in Readers :
             /\ (pc[r] = "links" /\ pc'[r] # "links") => gl'[r] = <<conf.Links>>
             /\ (pc[r] = "read" /\ rd'[r] # rd[r] /\ Fields[rd'[r]] = "Links")
                   => seen'[r].Links = conf.Links
      ]_vars

\* GetLinks has returned the two rules of SaveLinks s1, in order, before s1
\* has called SavePluginConfig
C12_Witness ==
    /\ NotYetSaved("s1")
    /\ Len(links["s1"]) = 2
    /\ links["s1"][1] # links["s1"][2]
    /\ pc["r1"] = "done"
    /\ gl["r1"] = <<links["s1"]>>


ToMapFailed(s) == pc[s] = "done" /\ saved[s] = <<>>

\* C14: SaveLinks returns an error exactly when ToMap failed or the host's
\* SavePluginConfig call failed, and nil exactly when both succeeded; this
\* holds whatever rules it was given, compiled or not.
C14_SaveLinksError ==
    \A s \in Savers :
        /\ pc[s] # "done" => ret[s] = "none"
        /\ pc[s] = "done" =>
             /\ ret[s] \in {"nil", "err"}
             /\ ret[s] = "err" <=> (ToMapFailed(s) \/ appErr[s] = "err")
             /\ ret[s] = "nil" <=> (~ToMapFailed(s) /\ appErr[s] = "nil")

\* SaveLinks has returned nil for a sequence holding a rule that has no
\* compiled expression and whose pattern does not compile; another SaveLinks
\* has returned the error of a failed SavePluginConfig call
C14_Witness ==
    /\ pc["s1"] = "done" /\ ret["s1"] = "nil"
    /\ \E i \in 1..Len(links["s1"]) : ~links["s1"][i].re /\ CompileFails(links["s1"][i])
    /\ pc["s2"] = "done" /\ ret["s2"] = "err" /\ appErr["s2"] = "err"


\* invocation p holds p.confLock, for writing or for reading
HoldsLock(p) == confLock.w = p \/ p \in confLock.r

\* this step is a call of an external collaborator by invocation p:
\* LoadPluginConfiguration with the Compile and GetUser calls that follow it,
\* SavePluginConfig, or the RegisterCommand / UnregisterCommand of its goroutine
ExternalCallStep(p) ==
    \/ p \in OCCs /\ pc[p] = "start" /\ pc'[p] # "start"
    \/ p \in OCCs /\ task[p] = "spawned" /\ task'[p] = "done"
    \/ p \in Savers /\ pc[p] = "save" /\ pc'[p] # "save"

\* C15: an invocation holds neither the read nor the write lock when it calls
\* LoadPluginConfiguration, Compile, GetUser, SavePluginConfig,
\* RegisterCommand or UnregisterCommand, nor when the call returns.
C15_NoExternalCallUnderLock ==
    [][\A p \in OCCs \cup Savers :
          ExternalCallStep(p) => (~HoldsLock(p) /\ ~HoldsLock(p)')]_vars

\* an OnConfigurationChange has loaded, compiled, looked up users and made
\* its command call, and a SaveLinks has called SavePluginConfig
C15_Witness ==
    /\ loaded["o1"] # <<>> /\ compiles["o1"] > 0 /\ lookups["o1"] # <<>>
    /\ cmdCalls["o1"] # <<>>
    /\ saved["s1"] # <<>>


\* the next step of invocation p is a Lock or an RLock of p.confLock
AtLockRequest(p) == pc[p] \in {"start", "swap", "rlock"}

\* every invocation that has begun has returned, and the lock is free
Quiescent ==
    /\ \A p \in Procs : pc[p] \in {"start", "done"}
    /\ confLock = [w |-> NoProc, r |-> {}]

\* C16: an invocation that is about to take the lock does not hold it, one
\* that has not begun or has returned does not hold it, and, when every
\* invocation keeps being scheduled, the behaviour reaches and stays in a
\* state where every invocation that has begun has returned and the lock is
\* free: every lock taken is released, every invocation returns.
C16_NoDeadlock ==
    /\ [](\A p \in Procs :
            /\ AtLockRequest(p) => ~HoldsLock(p)
            /\ pc[p] \in {"start", "done"} => ~HoldsLock(p))
    /\ <>[]Quiescent

\* an OnConfigurationChange and a SaveLinks have both taken the lock and
\* returned, and the lock is free
C16_Witness ==
    /\ pc["o1"] = "done" /\ ret["o1"] = "nil"
    /\ pc["s1"] = "done"
    /\ confLock = [w |-> NoProc, r |-> {}]


\* this step is the RegisterCommand / UnregisterCommand call of o's goroutine
CommandCallStep(o) == task[o] = "spawned" /\ task'[o] = "done"

\* this step is the successful return of OnConfigurationChange o
ReturnsNilStep(o) == pc[o] # "done" /\ pc'[o] = "done" /\ ret'[o] = "nil"

AllFinished ==
    /\ \A p \in Procs : pc[p] \in {"start", "done"}
    /\ \A o \in OCCs : task[o] # "spawned"

\* C18 (as claimed): once the OnConfigurationChange invocations, all of them
\* successful, and their goroutines have finished, the host has the
\* "autolink" command registered exactly when the active configuration's
\* EnableAdminCommand is true.
C18_RegistrationAgrees ==
    ( /\ AllFinished
      /\ \E o \in OCCs : pc[o] = "done"
      /\ \A o \in OCCs : pc[o] = "done" => ret[o] = "nil" )
    => (registered <=> conf.EnableAdminCommand)


\* C19 (as claimed): once the OnConfigurationChange and SaveLinks invocations
\* have all returned, every host call having succeeded, the active
\* configuration's rules and PluginAdmins are those in the host's store.
C19_NoStaleOverwrite ==
    ( /\ \A p \in OCCs \cup Savers : pc[p] \in {"start", "done"}
      /\ \E p \in OCCs \cup Savers : pc[p] = "done"
      /\ \A p \in OCCs \cup Savers : pc[p] = "done" => ret[p] = "nil" )
    => /\ FieldToJSON("Links", conf.Links) = store.links
       /\ conf.PluginAdmins = store.pluginadmins


\* this step is a step of SaveLinks s
SaveLinksStep(s) == pc'[s] # pc[s] \/ tm'[s] # tm[s]

\* this step is SaveLinks s returning an error
ReturnsErrStep(s) == pc[s] # "done" /\ pc'[s] = "done" /\ ret'[s] = "err"

\* no invocation that writes the configuration, other than s, has begun
OnlyWriter(s) == \A p \in (OCCs \cup Savers) \ {s} : pc[p] = "start"

\* C20: no step of SaveLinks changes a field of the active configuration
\* other than Links; the step that returns an error changes neither the
\* active configuration nor the host's store; so after a failed
\* SaveLinks(links) with no other writer the active rules are links, the
\* other fields are as before the call, and the store is as before the call.
C20_NoRollback ==
    /\ [][\A s \in Savers :
            /\ SaveLinksStep(s) =>
                 \A i \in 1..Len(Fields) :
                    Fields[i] # "Links" => conf'[Fields[i]] = conf[Fields[i]]
            /\ ReturnsErrStep(s) => (conf' = conf /\ store' = store)
       ]_vars
    /\ [](\A s \in Savers :
            (pc[s] = "done" /\ ret[s] = "err" /\ OnlyWriter(s)) =>
                /\ conf = [ZeroConfig EXCEPT !.Links = links[s]]
                /\ store = ZeroMap)

\* SaveLinks s1 has failed at SavePluginConfig after OnConfigurationChange o1
\* installed a configuration: the active rules are those given to s1, the
\* other fields are those o1 installed, the store holds what o1 loaded
C20_Witness ==
    /\ pc["o1"] = "done" /\ ret["o1"] = "nil"
    /\ pc["s1"] = "done" /\ ret["s1"] = "err" /\ appErr["s1"] = "err"
    /\ conf = [c["o1"] EXCEPT !.Links = links["s1"]]
    /\ conf.Links # c["o1"].Links
    /\ store = loaded["o1"][1]
    /\ store.links # <<>>

====
